---- MODULE Spec2Model ----
(***************************************************************************)
(* Model of the generation worker (src/unnamed/part_010): the job          *)
(* controller executeGenerationJob with its two handlers, the local build  *)
(* validation loop validateAndFixBuild, the two deployment retry loops,    *)
(* the fix step fixDeploymentErrors and the LLM caller                     *)
(* callClaudeWithLogging, over the job row kept by src/lib/database.ts.    *)
(*                                                                         *)
(* Strings are sequences of tokens: String.includes(t) is membership of    *)
(* the token t, a template string is a concatenation.  A FileSet is a      *)
(* function from filenames to a content version; a fix that changes a      *)
(* file yields the next version of its content.                            *)
(***************************************************************************)
EXTENDS Integers, Sequences, FiniteSets, TLC

\* ------------------------------------------------------------------------
\* Bounds of the model
\* ------------------------------------------------------------------------

\* how many times executeGenerationJob is invoked on the job
MaxInvocations == 2

\* ------------------------------------------------------------------------
\* Program constants
\* ------------------------------------------------------------------------

MAX_CONSECUTIVE_SAME_ERROR_RETRIES == 3

maxIterations == 3

maxDeploymentRetries == 4

maxRetries == 3

baseDelay == 1000

SignatureLength == 200

SimilarityPrefix == 100

\* ------------------------------------------------------------------------
\* Inputs: what the collaborators can answer
\* ------------------------------------------------------------------------

Filenames == {"page"}

\* deployment errors reported by the hosting platform; the second token of an
\* error is a line:column reference
LineTokens == {"1:1", "2:5"}

RawErrors == {<<"a", "1:1">>, <<"a", "2:5">>, <<"c", "1:1">>}

\* messages of exceptions thrown by createPreview / redeployToVercel
ExceptionMessages == {<<"timeout">>, <<"boom">>}

\* error summaries of a failed local build
BuildErrors == {"E1", "E2"}

\* HTTP-level answers of the generation service to one request
GatewayResponses ==
  {"ok", "overloaded", "server_error", "client_error", "client_error_fetch",
   "network_error", "bad_json"}

\* what parseStage4ValidatorResponse makes of an LLM answer
FixKinds == {"unparseable", "none", "diff", "full"}

\* no answer of the LLM is waiting to be parsed
NoFixResponse == "no_response"

NoError == << >>

\* ------------------------------------------------------------------------
\* Pure helpers
\* ------------------------------------------------------------------------

Min(a, b) == IF a < b THEN a ELSE b

Includes(s, t) == \E i \in 1..Len(s) : s[i] = t

Prefix(s, n) == SubSeq(s, 1, Min(Len(s), n))

\* s.includes(sub) for strings as token sequences
IncludesSeq(s, sub) ==
  \E i \in 0..(Len(s) - Len(sub)) : SubSeq(s, i + 1, i + Len(sub)) = sub

createErrorSignature(error) ==
  LET normalized == [i \in 1..Len(error) |->
                       IF error[i] \in LineTokens THEN "LINE:COL" ELSE error[i]]
  IN Prefix(normalized, SignatureLength)

areErrorsSimilar(error1, error2) ==
  LET sig1 == createErrorSignature(error1)
      sig2 == createErrorSignature(error2)
  IN \/ sig1 = sig2
     \/ IncludesSeq(sig1, Prefix(sig2, SimilarityPrefix))
     \/ IncludesSeq(sig2, Prefix(sig1, SimilarityPrefix))

\* the catch block of the initial deployment loop
isTimeoutError(errorMessage) ==
  \/ Includes(errorMessage, "timeout")
  \/ Includes(errorMessage, "ETIMEDOUT")
  \/ Includes(errorMessage, "ECONNRESET")

\* the catch block of the follow-up deployment loop
isRetryableError(errorMessage) ==
  \/ Includes(errorMessage, "timeout")
  \/ Includes(errorMessage, "ETIMEDOUT")
  \/ Includes(errorMessage, "ECONNRESET")
  \/ Includes(errorMessage, "fetch failed")

FilenamesOf(files) == DOMAIN files

\* variant: whatever the answer is, the named file gets a next content
ApplyFixAlways(files, kind, f) ==
  IF f \in DOMAIN files
    THEN [files EXCEPT ![f] = @ + 1]
    ELSE files

\* a fix answer applied to a FileSet: diffs and whole-file replacements give
\* the named file its next content; anything else leaves the FileSet alone
ApplyFix(files, kind, f) ==
  IF kind \in {"diff", "full"} /\ f \in DOMAIN files
    THEN [files EXCEPT ![f] = @ + 1]
    ELSE files

InitialFiles == [f \in Filenames |-> 0]

\* the files of a project after a follow-up edit: every changed file has its
\* next content
Edited(files) == [f \in DOMAIN files |-> files[f] + 1]

NoFiles == [f \in {} |-> 0]

NoResult == [status |-> "no_result"]

NoPreview == [status |-> "none", deploymentError |-> NoError]

\* the row update of updateGenerationJobStatus: the status is always written,
\* result and error only when the caller passes them
Undefined == [status |-> "undefined"]

UndefinedError == <<"undefined">>

updateGenerationJobStatus(row, status, result, error) ==
  [status |-> status,
   result |-> IF result # Undefined THEN result ELSE row.result,
   error  |-> IF error # UndefinedError THEN error ELSE row.error]

\* ------------------------------------------------------------------------
\* State
\* ------------------------------------------------------------------------

VARIABLES
  job,                 \* the generation_jobs row: status, result, error
  jobKind,             \* context.isFollowUp: "initial" or "follow_up"
  projectFiles,        \* the files saved in the project store
  userDir,             \* the scratch workspace directory on disk
  pc,                  \* where the live execution stands ("idle": none)
  returned,            \* how the last execution ended: none, returned, threw
  invocations,         \* executions started so far
  generatedFiles,      \* initial handler: generatedFiles
  validatedFiles,      \* follow-up handler: validatedFiles
  deployableFiles,     \* follow-up handler: deployableFiles
  currentFiles,        \* validateAndFixBuild: currentFiles
  iteration,           \* validateAndFixBuild: iteration
  lastErrorSignature,  \* validateAndFixBuild: lastErrorSignature
  consecutiveSameErrors, \* validateAndFixBuild: consecutiveSameErrors
  deploymentAttempt,   \* deployment loop: deploymentAttempt
  errorHistory,        \* deployment loop: errorHistory
  consecutiveSameErrorCount, \* deployment loop: consecutiveSameErrorCount
  stuckOnError,        \* deployment loop: stuckOnError
  previewData,         \* initial handler: previewData (NoPreview: undefined)
  deploymentFailed,    \* deploymentFailed of either handler
  deploymentError,     \* deploymentError of either handler
  attempt,             \* callClaudeWithLogging: attempt (0: no call running)
  model,               \* callClaudeWithLogging: body.model
  fallbackModel,       \* callClaudeWithLogging: modelConfig.fallbackModel is set
  responses,           \* history: what the earlier requests of the call met
  delay,               \* history: the backoff slept after the previous request
  throttleDelay,       \* history: the throttle slept before this request
  fixCalls,            \* history: the calls of fixDeploymentErrors in this loop
  notifyCalled,        \* history: this execution has called a notification
  fixResponse,         \* the answer the last call of the LLM returned, by what the parser makes of it
  notified,            \* notifications delivered by the live execution
  contractPhase,       \* how the prerequisite contract deployment ended
  buildHistory,        \* history: the outcome of every build run of this call
  buildFixCalls,       \* history: the calls of the LLM made by this call
  filesToFix,          \* the files of the FileSet the errors of the last build name
  deployOutcomes,      \* history: what the platform answered, per attempt
  pushed,              \* history: the FileSet of the latest push
  thrown,              \* the message of the exception on its way to the catch block
  redeployed,          \* history: the metadata redeploy pushed the files
  dispatched,          \* history: the execution reached a handler
  buildThrew,          \* validateAndFixBuild ended by an exception
  stageFailure,        \* history: a stage other than deployment threw
  allLogs,             \* parseVercelDeploymentErrors: the error blocks of the input
  errorOutput,         \* parseVercelDeploymentErrors: the other text of errorOutput
  logs,                \* parseVercelDeploymentErrors: the other text of logs
  parsedErrors,        \* parseVercelDeploymentErrors: the errors returned
  parsed,              \* parseVercelDeploymentErrors has returned
  jobRows,             \* several executions: the generation_jobs rows by job id
  projectRows,         \* several executions: the ids of the project rows
  savedFiles,          \* several executions: the saved files of each project
  disk,                \* several executions: the directory of each project
  uuids,               \* several executions: how many ids uuidv4 has issued
  exec,                \* several executions: the locals of each execution
  created,             \* history: the project rows each job created
  loopOutcomes,        \* the two loops side by side: what the platform answers, attempt by attempt
  loopResults,         \* the two loops side by side: how each loop ended
  storedStatus,        \* concurrent invocations: the status of the job row
  claimants,           \* concurrent invocations: position and fetched status of each
  overlapped,          \* concurrent invocations: a fetch happened while another was live
  fixes,               \* fix answer: the fixes parsed from the answer of the LLM
  filesBefore,         \* fix answer: currentFiles when the answer arrives
  updatedFiles,        \* fix answer: currentFiles after the answer is applied
  fixSite              \* fix answer: the loop that applied it

jobVars == <<job, jobKind>>

storeVars == <<projectFiles, userDir>>

fileVars == <<generatedFiles, validatedFiles, deployableFiles>>

buildVars == <<currentFiles, iteration, lastErrorSignature, consecutiveSameErrors,
               buildHistory, buildFixCalls, filesToFix, buildThrew>>

deployVars == <<deploymentAttempt, errorHistory, consecutiveSameErrorCount,
                stuckOnError, previewData, deploymentFailed, deploymentError,
                deployOutcomes, pushed>>

gatewayVars == <<attempt, model, fallbackModel, responses, delay, throttleDelay>>

parserVars == <<allLogs, errorOutput, logs, parsedErrors, parsed>>

workerVars == <<jobRows, projectRows, savedFiles, disk, uuids, exec, created>>

handlerVars == <<jobVars, storeVars, fileVars, buildVars, deployVars, gatewayVars,
                 pc, returned, invocations, notified, thrown, redeployed, dispatched,
                 stageFailure, contractPhase, fixResponse, notifyCalled,
                 fixCalls>>

loopVars == <<loopOutcomes, loopResults>>

claimVars == <<storedStatus, claimants, overlapped>>

fixVars == <<fixes, filesBefore, updatedFiles, fixSite>>

vars == <<handlerVars, parserVars, workerVars, loopVars, claimVars, fixVars>>

\* a deployment loop that has not run
NoRun == [attempts |-> 0, classification |-> "none"]

\* the two loops are not run side by side
LoopsIdle ==
  /\ loopOutcomes = << >>
  /\ loopResults = [initial |-> NoRun, followUp |-> NoRun]

NotApplied == "not_applied"

\* no parsed fix answer is being applied
FixesIdle ==
  /\ fixes = << >>
  /\ filesBefore = << >>
  /\ updatedFiles = NotApplied
  /\ fixSite = "none"

\* executeGenerationJob is not invoked concurrently
ClaimsIdle ==
  /\ storedStatus = "pending"
  /\ claimants = << >>
  /\ overlapped = FALSE

\* no parse is under way
ParserIdle ==
  /\ allLogs = << >>
  /\ errorOutput = << >>
  /\ logs = << >>
  /\ parsedErrors = << >>
  /\ parsed = FALSE

\* files as the set of those who wrote them: the project as first saved, or
\* a job id
NoContent == {}

\* no execution of the several-executions view has started
WorkersIdle ==
  /\ jobRows = << >>
  /\ projectRows = {}
  /\ savedFiles = << >>
  /\ disk = << >>
  /\ uuids = 0
  /\ exec = << >>
  /\ created = << >>

\* the state of the worker before any invocation
HandlerInit ==
  /\ job \in [status : {"pending", "processing"}, result : {NoResult}, error : {NoError}]
  /\ jobKind \in {"initial", "follow_up"}
  /\ projectFiles = IF jobKind = "follow_up" THEN InitialFiles ELSE NoFiles
  /\ userDir = NoFiles
  /\ pc = "idle"
  /\ returned = "none"
  /\ invocations = 0
  /\ generatedFiles = NoFiles
  /\ validatedFiles = NoFiles
  /\ deployableFiles = NoFiles
  /\ currentFiles = NoFiles
  /\ iteration = 0
  /\ lastErrorSignature = ""
  /\ consecutiveSameErrors = 0
  /\ deploymentAttempt = 0
  /\ errorHistory = << >>
  /\ consecutiveSameErrorCount = 0
  /\ stuckOnError = FALSE
  /\ previewData = NoPreview
  /\ deploymentFailed = FALSE
  /\ deploymentError = NoError
  /\ attempt = 0
  /\ model = "none"
  /\ fallbackModel = FALSE
  /\ responses = << >>
  /\ delay = 0
  /\ throttleDelay = 0
  /\ fixResponse = NoFixResponse
  /\ notifyCalled = FALSE
  /\ fixCalls = 0
  /\ notified = 0
  /\ buildHistory = << >>
  /\ buildFixCalls = 0
  /\ filesToFix = {}
  /\ buildThrew = FALSE
  /\ deployOutcomes = << >>
  /\ pushed = << >>
  /\ thrown = NoError
  /\ redeployed = FALSE
  /\ dispatched = FALSE
  /\ stageFailure = FALSE
  /\ contractPhase = "none"

Init == HandlerInit /\ ParserIdle /\ WorkersIdle /\ LoopsIdle /\ ClaimsIdle /\ FixesIdle

\* ------------------------------------------------------------------------
\* executeGenerationJob: entry and the catch block
\* ------------------------------------------------------------------------

\* an exception leaves the handler towards the catch block of
\* executeGenerationJob
Throw(message) ==
  /\ pc' = "catch"
  /\ thrown' = message

\* a throw out of a stage that is not the deployment loop
StageThrows(message) ==
  /\ Throw(message)
  /\ stageFailure' = TRUE

CanProcess(status) == status = "processing" \/ status = "pending"

\* callClaudeWithLogging is entered: the first request goes to the model of
\* the stage configuration, which may or may not name a fallback model
StartCall ==
  /\ attempt' = 1
  /\ model' = "primary"
  /\ \E configured \in BOOLEAN : fallbackModel' = configured
  /\ responses' = << >>
  /\ delay' = 0
  /\ throttleDelay' = 0

\* callClaudeWithLogging is left, by return or by exception
EndCall ==
  /\ attempt' = 0
  /\ model' = "none"
  /\ fallbackModel' = FALSE
  /\ responses' = << >>
  /\ delay' = 0
  /\ throttleDelay' = 0

\* the frame of a handler and of the functions it called is gone: its
\* locals hold nothing any more
FrameGone ==
  /\ generatedFiles' = NoFiles
  /\ validatedFiles' = NoFiles
  /\ deployableFiles' = NoFiles
  /\ currentFiles' = NoFiles
  /\ iteration' = 0
  /\ lastErrorSignature' = ""
  /\ consecutiveSameErrors' = 0
  /\ buildHistory' = << >>
  /\ buildFixCalls' = 0
  /\ filesToFix' = {}
  /\ buildThrew' = FALSE
  /\ deploymentAttempt' = 0
  /\ errorHistory' = << >>
  /\ consecutiveSameErrorCount' = 0
  /\ stuckOnError' = FALSE
  /\ previewData' = NoPreview
  /\ deploymentFailed' = FALSE
  /\ deploymentError' = NoError
  /\ deployOutcomes' = << >>
  /\ pushed' = << >>
  /\ EndCall
  /\ fixResponse' = NoFixResponse
  /\ notifyCalled' = FALSE
  /\ fixCalls' = 0
  /\ notified' = 0
  /\ redeployed' = FALSE
  /\ stageFailure' = FALSE
  /\ contractPhase' = "none"

\* executeGenerationJob(jobId) up to the dispatch to a handler
Invoke ==
  /\ pc = "idle"
  /\ invocations < MaxInvocations
  /\ invocations' = invocations + 1
  /\ returned' = "none"
  /\ IF ~CanProcess(job.status)
       THEN /\ Throw(<<"Job is in", job.status, "state, cannot process">>)
            /\ dispatched' = FALSE
            /\ UNCHANGED job
       ELSE /\ job' = IF job.status = "pending"
                        THEN updateGenerationJobStatus(job, "processing", Undefined,
                                                       UndefinedError)
                        ELSE job
            /\ pc' = "setup"
            /\ dispatched' = TRUE
            /\ thrown' = NoError
  /\ UNCHANGED <<jobKind, storeVars, fileVars, buildVars, deployVars, gatewayVars,
                 notified, redeployed, stageFailure>>
  /\ UNCHANGED <<contractPhase, fixResponse, notifyCalled, fixCalls, parserVars, workerVars, loopVars, claimVars, fixVars>>

\* variant: a catch block that rethrows without the status write
CatchRethrowsOnly ==
  /\ pc = "catch"
  /\ pc' = "idle"
  /\ returned' = "threw"
  /\ FrameGone
  /\ UNCHANGED <<jobVars, storeVars, invocations, thrown, dispatched>>
  /\ UNCHANGED <<parserVars, workerVars, loopVars, claimVars, fixVars>>

\* the catch block of executeGenerationJob: the job is marked failed with the
\* message of the exception, and the exception is rethrown to the caller
CatchBlock ==
  /\ pc = "catch"
  /\ job' = updateGenerationJobStatus(job, "failed", Undefined, thrown)
  /\ pc' = "idle"
  /\ returned' = "threw"
  /\ FrameGone
  /\ UNCHANGED <<jobKind, storeVars, invocations, thrown, dispatched>>
  /\ UNCHANGED <<parserVars, workerVars, loopVars, claimVars, fixVars>>

\* the handler returned: executeGenerationJob returns to its caller
Return ==
  /\ pc = "return"
  /\ pc' = "idle"
  /\ returned' = "returned"
  /\ FrameGone
  /\ UNCHANGED <<jobVars, storeVars, invocations, thrown, dispatched>>
  /\ UNCHANGED <<parserVars, workerVars, loopVars, claimVars, fixVars>>

\* the start of a handler: configuration, user lookup, and the template fetch
\* (initial) or the load of the existing files (follow-up)
Setup ==
  /\ pc = "setup"
  /\ \E ok \in BOOLEAN :
       IF ok
         THEN /\ pc' = "generate"
              /\ userDir' = IF jobKind = "initial" THEN InitialFiles
                            ELSE IF userDir = NoFiles THEN projectFiles
                            ELSE userDir
              /\ UNCHANGED <<thrown, stageFailure, projectFiles>>
         ELSE /\ StageThrows(<<"Failed to load">>)
              /\ UNCHANGED storeVars
  /\ UNCHANGED <<jobVars, fileVars, buildVars, deployVars, gatewayVars, returned,
                 invocations, notified, redeployed, dispatched>>
  /\ UNCHANGED <<contractPhase, fixResponse, notifyCalled, fixCalls, parserVars, workerVars, loopVars, claimVars, fixVars>>

\* validateAndFixBuild ends: it returns its current files, or (threw) an
\* exception leaves it
AfterBuild(threw) ==
  /\ pc' = "buildReturn"
  /\ buildThrew' = threw

\* the generation pipeline (executeEnhancedPipeline / executeDiffBasedPipeline)
Generate ==
  /\ pc = "generate"
  /\ \E outcome \in {"ok", "failed", "throws"} :
       CASE outcome = "ok" ->
              /\ IF jobKind = "initial"
                   THEN /\ generatedFiles' = InitialFiles
                        /\ userDir' = InitialFiles
                        /\ pc' = "contracts"
                        /\ UNCHANGED <<validatedFiles, currentFiles, projectFiles>>
                   ELSE /\ validatedFiles' = Edited(userDir)
                        /\ currentFiles' = Edited(userDir)
                        /\ pc' = "build"
                        /\ UNCHANGED <<generatedFiles, storeVars>>
              /\ UNCHANGED <<thrown, stageFailure>>
         [] outcome = "failed" ->
              \* only the initial handler looks at enhancedResult.success
              /\ jobKind = "initial"
              /\ StageThrows(<<"Enhanced pipeline failed">>)
              /\ UNCHANGED <<generatedFiles, validatedFiles, currentFiles, storeVars>>
         [] outcome = "throws" ->
              /\ StageThrows(<<"pipeline exception">>)
              /\ UNCHANGED <<generatedFiles, validatedFiles, currentFiles, storeVars>>
  /\ UNCHANGED <<jobVars, deployableFiles, iteration, lastErrorSignature,
                 consecutiveSameErrors, buildHistory,
                 buildFixCalls, filesToFix, buildThrew, deployVars,
                 gatewayVars, returned, invocations, notified, redeployed, dispatched>>
  /\ UNCHANGED <<contractPhase, fixResponse, notifyCalled, fixCalls, parserVars, workerVars, loopVars, claimVars, fixVars>>

\* the prerequisite contract deployment of the initial handler: skipped for
\* a project without contracts, and a failure is caught and ignored; the
\* addresses of deployed contracts are injected into the files
Contracts ==
  /\ pc = "contracts"
  /\ \E outcome \in {"not_web3", "deployed", "failed"} :
       /\ contractPhase' = outcome
       /\ IF outcome = "deployed"
            THEN /\ generatedFiles' = [generatedFiles EXCEPT !["page"] = @ + 1]
                 /\ userDir' = generatedFiles'
            ELSE UNCHANGED <<generatedFiles, userDir>>
  /\ currentFiles' = generatedFiles'
  /\ pc' = "build"
  /\ UNCHANGED <<jobVars, projectFiles, validatedFiles, deployableFiles, iteration,
                 lastErrorSignature, consecutiveSameErrors, buildHistory,
                 buildFixCalls, filesToFix, buildThrew,
                 deployVars, gatewayVars, returned, invocations, notified, thrown,
                 redeployed, dispatched, stageFailure>>
  /\ UNCHANGED <<fixResponse, notifyCalled, fixCalls, parserVars, workerVars, loopVars, claimVars, fixVars>>

\* ------------------------------------------------------------------------
\* validateAndFixBuild
\* ------------------------------------------------------------------------

\* variant: a loop that forgets to count its iterations
SameIteration(it) == it

NextIteration(it) == it + 1

\* the stuck check: how many repeats of one error summary end the loop
IsStuckOnBuild(count) == count >= 2

\* variant: no iteration is taken for the last one
IsLastIterationNever(it) == FALSE

IsLastIteration(it) == it >= maxIterations

\* one pass of the while loop up to the call of the LLM: write the files,
\* run the build, compare the error summary with the previous one
BuildIteration ==
  /\ pc = "build"
  /\ iteration < maxIterations
  /\ iteration' = NextIteration(iteration)
  /\ userDir' = currentFiles
  /\ \E outcome \in {"success", "throws"} \cup BuildErrors, named \in SUBSET Filenames :
       /\ buildHistory' = Append(buildHistory, outcome)
       /\ CASE outcome = "success" ->
                 /\ AfterBuild(FALSE)
                 /\ filesToFix' = {}
                 /\ UNCHANGED <<lastErrorSignature, consecutiveSameErrors, gatewayVars,
                                buildFixCalls>>
            [] outcome = "throws" ->
                 /\ AfterBuild(TRUE)
                 /\ filesToFix' = {}
                 /\ UNCHANGED <<lastErrorSignature, consecutiveSameErrors, gatewayVars,
                                buildFixCalls>>
            [] OTHER ->
                 LET same  == outcome = lastErrorSignature
                     count == IF same THEN consecutiveSameErrors + 1 ELSE 0
                 IN /\ consecutiveSameErrors' = count
                    /\ lastErrorSignature' = outcome
                    /\ IF \/ same /\ IsStuckOnBuild(count)
                          \/ IsLastIteration(iteration')
                          \/ named = {}
                         THEN /\ AfterBuild(FALSE)
                              /\ filesToFix' = {}
                              /\ UNCHANGED <<gatewayVars, buildFixCalls>>
                         ELSE /\ pc' = "buildFix"
                              /\ filesToFix' = named
                              /\ buildFixCalls' = buildFixCalls + 1
                              /\ StartCall
                              /\ UNCHANGED buildThrew
  /\ UNCHANGED <<jobVars, projectFiles, fileVars, currentFiles, deployVars, returned,
                 invocations, notified, thrown, redeployed, dispatched, stageFailure>>
  /\ fixResponse' = NoFixResponse
  /\ UNCHANGED <<contractPhase, notifyCalled, fixCalls, parserVars, workerVars, loopVars, claimVars, fixVars>>

\* the handler takes the result of validateAndFixBuild: its files, or after
\* an exception the files the handler had; the locals of the loop are gone
BuildReturn ==
  /\ pc = "buildReturn"
  /\ IF jobKind = "initial"
       THEN /\ generatedFiles' = IF buildThrew THEN generatedFiles ELSE currentFiles
            /\ userDir' = IF buildThrew THEN userDir ELSE currentFiles
            /\ pc' = "deploy"
            /\ UNCHANGED validatedFiles
       ELSE /\ validatedFiles' = IF buildThrew THEN validatedFiles ELSE currentFiles
            /\ pc' = "saveEdit"
            /\ UNCHANGED <<generatedFiles, userDir>>
  /\ currentFiles' = NoFiles
  /\ iteration' = 0
  /\ lastErrorSignature' = ""
  /\ consecutiveSameErrors' = 0
  /\ buildHistory' = << >>
  /\ buildFixCalls' = 0
  /\ filesToFix' = {}
  /\ buildThrew' = FALSE
  /\ UNCHANGED <<jobVars, projectFiles, deployableFiles, deployVars, gatewayVars,
                 returned, invocations, notified, thrown, redeployed, dispatched,
                 stageFailure>>
  /\ fixResponse' = NoFixResponse
  /\ UNCHANGED <<contractPhase, notifyCalled, fixCalls, parserVars, workerVars, loopVars, claimVars, fixVars>>

\* the LLM answer of a build fix is parsed and applied
BuildApply ==
  /\ pc = "buildApply"
  /\ \E f \in Filenames :
       currentFiles' = ApplyFix(currentFiles, fixResponse, f)
  /\ UNCHANGED gatewayVars
  /\ pc' = "build"
  /\ UNCHANGED <<jobVars, storeVars, fileVars, iteration, lastErrorSignature,
                 consecutiveSameErrors, buildHistory,
                 buildFixCalls, filesToFix, buildThrew, deployVars,
                 returned, invocations, notified, thrown, redeployed,
                 dispatched, stageFailure>>
  /\ UNCHANGED <<contractPhase, fixResponse, notifyCalled, fixCalls, parserVars, workerVars, loopVars, claimVars, fixVars>>

\* ------------------------------------------------------------------------
\* The deployment loops: shared bookkeeping
\* ------------------------------------------------------------------------

\* what createPreview / redeployToVercel can answer to one push: a returned
\* record, or (status "threw") an exception with its message
PlatformAnswers ==
  [status : {"deployment_failed"}, deploymentError : RawErrors \cup {NoError}]
    \cup [status : {"ready"}, deploymentError : {NoError, <<"c", "1:1">>}]
    \cup [status : {"threw"}, deploymentError : ExceptionMessages]

\* variant: a new error sets the counter to zero
NextSameErrorCountFromZero(history, count, error) ==
  IF Len(history) > 0 /\ areErrorsSimilar(error, history[Len(history)])
    THEN count + 1
    ELSE 0

\* variant: the counter starts again at every reported error
NextSameErrorCountRestarts(history, count, error) == 1

\* the consecutive-same-error counter after one more reported error
NextSameErrorCount(history, count, error) ==
  IF Len(history) > 0
    THEN IF areErrorsSimilar(error, history[Len(history)]) THEN count + 1 ELSE 1
    ELSE 1

\* variant: stuck one repeat later
IsStuckAfter(count) == count > MAX_CONSECUTIVE_SAME_ERROR_RETRIES

IsStuck(count) == count >= MAX_CONSECUTIVE_SAME_ERROR_RETRIES

\* variant: the last attempt is retried like the others
CanRetryAlways(n) == n <= maxDeploymentRetries

CanRetry(n) == n < maxDeploymentRetries

\* the progress payloads written while the job is processing
RetryPayload(n, count, error) ==
  [status |-> "deployment_retry", attempt |-> n, maxAttempts |-> maxDeploymentRetries,
   consecutiveSameErrorCount |-> count, error |-> error]

RetryingPayload(n) ==
  [status |-> "deployment_retrying", attempt |-> n + 1,
   maxAttempts |-> maxDeploymentRetries, fixesApplied |-> TRUE]

TimeoutPayload(n, message) ==
  [status |-> "deployment_timeout", attempt |-> n, maxAttempts |-> maxDeploymentRetries,
   error |-> message]

Processing(row, payload) ==
  updateGenerationJobStatus(row, "processing", payload, UndefinedError)

\* ------------------------------------------------------------------------
\* The deployment loop of executeInitialGenerationJob
\* ------------------------------------------------------------------------

StuckDetails(n, count, error, files) ==
  [status |-> "stuck_on_error", stuckOnError |-> TRUE, consecutiveRetries |-> count,
   attempts |-> n, deploymentError |-> error, generatedFiles |-> FilenamesOf(files)]

AllAttemptsDetails(n, count, stuck, error, files) ==
  [status |-> "deployment_failed_all_attempts", stuckOnError |-> stuck,
   consecutiveRetries |-> count, attempts |-> n, deploymentError |-> error,
   generatedFiles |-> FilenamesOf(files)]

ExceptionDetails(n, message, files) ==
  [status |-> "deployment_failed_exception", attempts |-> n,
   errorType |-> IF isTimeoutError(message) THEN "timeout" ELSE "other",
   deploymentError |-> message, generatedFiles |-> FilenamesOf(files)]

StuckMessage(count) ==
  <<"Stuck on same error after", ToString(count), "consecutive retries">>

\* variant: a catch block that sends a timeout through the fix step
InitialCatchFixes(n, message) ==
  IF isTimeoutError(message) /\ n < maxDeploymentRetries
    THEN /\ pc' = "deployApply"
         /\ UNCHANGED <<job, thrown>>
    ELSE IF n >= maxDeploymentRetries
      THEN /\ job' = updateGenerationJobStatus(
                       job, "failed", ExceptionDetails(n, message, generatedFiles),
                       message)
           /\ Throw(<<"Deployment failed after", ToString(n), "attempts:">> \o message)
      ELSE /\ pc' = "deploy"
           /\ UNCHANGED <<job, thrown>>

\* the catch block of the loop, for an exception thrown at attempt n
InitialCatch(n, message) ==
  IF isTimeoutError(message) /\ CanRetry(n)
    THEN /\ job' = Processing(job, TimeoutPayload(n, message))
         /\ pc' = "deploy"
         /\ UNCHANGED thrown
    ELSE IF ~CanRetry(n)
      THEN /\ job' = updateGenerationJobStatus(
                       job, "failed", ExceptionDetails(n, message, generatedFiles),
                       message)
           /\ Throw(<<"Deployment failed after", ToString(n), "attempts:">> \o message)
      ELSE /\ pc' = "deploy"
           /\ UNCHANGED <<job, thrown>>

\* one pass of the while loop: push the files, look at the answer, and either
\* leave the loop or go on to the fix step
DeployAttemptInitial ==
  /\ pc = "deploy"
  /\ jobKind = "initial"
  /\ deploymentAttempt < maxDeploymentRetries
  /\ deploymentAttempt' = deploymentAttempt + 1
  /\ pushed' = <<generatedFiles>>
  /\ \E answer \in PlatformAnswers, needsLLM \in BOOLEAN :
       LET n     == deploymentAttempt + 1
           error == answer.deploymentError
           count == NextSameErrorCount(errorHistory, consecutiveSameErrorCount, error)
       IN
       /\ deployOutcomes' = Append(deployOutcomes, answer)
       /\ CASE answer.status = "threw" ->
                 /\ InitialCatch(n, error)
                 /\ UNCHANGED <<previewData, errorHistory, consecutiveSameErrorCount,
                                stuckOnError, gatewayVars, userDir, fixCalls>>
            [] answer.status = "deployment_failed" /\ error # NoError ->
                 /\ errorHistory' = Append(errorHistory, error)
                 /\ consecutiveSameErrorCount' = count
                 /\ IF IsStuck(count)
                      THEN /\ stuckOnError' = TRUE
                           /\ job' = updateGenerationJobStatus(
                                       job, "failed",
                                       StuckDetails(n, count, error, generatedFiles),
                                       StuckMessage(count))
                           /\ previewData' = NoPreview
                           /\ pc' = "persist"
                           /\ UNCHANGED <<gatewayVars, userDir, fixCalls>>
                      ELSE IF CanRetry(n)
                        THEN /\ previewData' = answer
                             /\ fixCalls' = fixCalls + 1
                             /\ UNCHANGED stuckOnError
                             /\ IF needsLLM
                                  THEN /\ job' = Processing(job, RetryPayload(n, count, error))
                                       /\ pc' = "deployFix"
                                       /\ StartCall
                                       /\ UNCHANGED userDir
                                  ELSE \* nothing to fix: the files come back as they are
                                       /\ job' = Processing(job, RetryingPayload(n))
                                       /\ pc' = "deploy"
                                       /\ userDir' = generatedFiles
                                       /\ UNCHANGED gatewayVars
                        ELSE /\ job' = updateGenerationJobStatus(
                                         job, "failed",
                                         AllAttemptsDetails(n, count, stuckOnError, error,
                                                            generatedFiles),
                                         error)
                             /\ previewData' = NoPreview
                             /\ pc' = "persist"
                             /\ UNCHANGED <<stuckOnError, gatewayVars, userDir, fixCalls>>
                 /\ UNCHANGED thrown
            [] OTHER ->
                 /\ previewData' = answer
                 /\ pc' = "persist"
                 /\ UNCHANGED <<job, thrown, errorHistory, consecutiveSameErrorCount,
                                stuckOnError, gatewayVars, userDir, fixCalls>>
  /\ UNCHANGED <<jobKind, projectFiles, fileVars, buildVars, deploymentFailed,
                 deploymentError, returned, invocations, notified, redeployed,
                 dispatched, stageFailure>>
  /\ fixResponse' = NoFixResponse
  /\ UNCHANGED <<contractPhase, notifyCalled, parserVars, workerVars, loopVars, claimVars, fixVars>>

\* ------------------------------------------------------------------------
\* The deployment loop of executeFollowUpJob
\* ------------------------------------------------------------------------

FollowUpStuckError(count, error) ==
  <<"Stuck on same error after", ToString(count), "retries:">> \o error

\* the catch block of the loop, for an exception thrown at attempt n
FollowUpCatch(n, message) ==
  IF isRetryableError(message) /\ CanRetry(n)
    THEN /\ job' = Processing(job, TimeoutPayload(n, message))
         /\ pc' = "deploy"
         /\ UNCHANGED <<deploymentFailed, deploymentError>>
    ELSE /\ deploymentFailed' = TRUE
         /\ deploymentError' = message
         /\ pc' = "finishEdit"
         /\ UNCHANGED job

DeployAttemptFollowUp ==
  /\ pc = "deploy"
  /\ jobKind = "follow_up"
  /\ deploymentAttempt < maxDeploymentRetries
  /\ deploymentAttempt' = deploymentAttempt + 1
  /\ pushed' = <<deployableFiles>>
  /\ \E answer \in PlatformAnswers, needsLLM \in BOOLEAN, dbOk \in BOOLEAN :
       LET n     == deploymentAttempt + 1
           error == answer.deploymentError
           count == NextSameErrorCount(errorHistory, consecutiveSameErrorCount, error)
       IN
       /\ deployOutcomes' = Append(deployOutcomes, answer)
       /\ CASE answer.status = "threw" ->
                 /\ FollowUpCatch(n, error)
                 /\ UNCHANGED <<errorHistory, consecutiveSameErrorCount, stuckOnError,
                                gatewayVars, validatedFiles, storeVars, stageFailure,
                                fixCalls>>
            [] answer.status # "threw" /\ error # NoError ->
                 /\ errorHistory' = Append(errorHistory, error)
                 /\ consecutiveSameErrorCount' = count
                 /\ UNCHANGED validatedFiles
                 /\ IF IsStuck(count)
                      THEN /\ stuckOnError' = TRUE
                           /\ deploymentFailed' = TRUE
                           /\ deploymentError' = FollowUpStuckError(count, error)
                           /\ pc' = "finishEdit"
                           /\ UNCHANGED <<job, gatewayVars, storeVars, stageFailure,
                                          fixCalls>>
                      ELSE IF ~CanRetry(n)
                        THEN /\ job' = Processing(job, RetryPayload(n, count, error))
                             /\ deploymentFailed' = TRUE
                             /\ deploymentError' = error
                             /\ pc' = "finishEdit"
                             /\ UNCHANGED <<stuckOnError, gatewayVars, storeVars,
                                            stageFailure, fixCalls>>
                      ELSE IF needsLLM
                        THEN /\ job' = Processing(job, RetryPayload(n, count, error))
                             /\ pc' = "deployFix"
                             /\ fixCalls' = fixCalls + 1
                             /\ StartCall
                             /\ UNCHANGED <<stuckOnError, deploymentFailed,
                                            deploymentError, storeVars, stageFailure>>
                      ELSE \* nothing to fix: the same files are saved again
                           /\ userDir' = deployableFiles
                           /\ fixCalls' = fixCalls + 1
                           /\ UNCHANGED <<stuckOnError, gatewayVars>>
                           /\ IF dbOk
                                THEN /\ projectFiles' = deployableFiles
                                     /\ job' = Processing(job, RetryingPayload(n))
                                     /\ pc' = "deploy"
                                     /\ UNCHANGED <<deploymentFailed, deploymentError,
                                                    stageFailure>>
                                ELSE /\ FollowUpCatch(
                                          n, <<"db error">>)
                                     /\ stageFailure' = TRUE
                                     /\ UNCHANGED projectFiles
            [] OTHER ->
                 \* success: the project row gets the new URL, inside the try
                 /\ validatedFiles' = deployableFiles
                 /\ IF dbOk
                      THEN /\ pc' = "finishEdit"
                           /\ UNCHANGED <<job, deploymentFailed, deploymentError,
                                          stageFailure>>
                      ELSE /\ FollowUpCatch(n, <<"db error">>)
                           /\ stageFailure' = TRUE
                 /\ UNCHANGED <<errorHistory, consecutiveSameErrorCount, stuckOnError,
                                gatewayVars, storeVars, fixCalls>>
  /\ UNCHANGED <<jobKind, generatedFiles, deployableFiles, buildVars, previewData,
                 returned, invocations, notified, thrown, redeployed, dispatched>>
  /\ fixResponse' = NoFixResponse
  /\ UNCHANGED <<contractPhase, notifyCalled, parserVars, workerVars, loopVars, claimVars, fixVars>>

\* ------------------------------------------------------------------------
\* fixDeploymentErrors, after the LLM answered, and the rest of the loop body
\* ------------------------------------------------------------------------

DeployApply ==
  /\ pc = "deployApply"
  /\ UNCHANGED gatewayVars
  /\ \E f \in Filenames, dbOk \in BOOLEAN :
       IF jobKind = "initial"
         THEN /\ generatedFiles' = ApplyFix(generatedFiles, fixResponse, f)
              /\ userDir' = generatedFiles'
              /\ job' = Processing(job, RetryingPayload(deploymentAttempt))
              /\ pc' = "deploy"
              /\ UNCHANGED <<deployableFiles, projectFiles, deploymentFailed,
                             deploymentError, stageFailure>>
         ELSE /\ deployableFiles' = ApplyFix(deployableFiles, fixResponse, f)
              /\ userDir' = deployableFiles'
              /\ UNCHANGED generatedFiles
              /\ IF dbOk
                   THEN /\ projectFiles' = deployableFiles'
                        /\ job' = Processing(job, RetryingPayload(deploymentAttempt))
                        /\ pc' = "deploy"
                        /\ UNCHANGED <<deploymentFailed, deploymentError, stageFailure>>
                   ELSE \* saveProjectFiles throws inside the try of the loop
                        /\ FollowUpCatch(deploymentAttempt, <<"db error">>)
                        /\ stageFailure' = TRUE
                        /\ UNCHANGED projectFiles
  /\ UNCHANGED <<jobKind, validatedFiles, buildVars, deploymentAttempt, errorHistory,
                 consecutiveSameErrorCount, stuckOnError, previewData, deployOutcomes,
                 pushed, returned, invocations, notified,
                 thrown, redeployed, dispatched>>
  /\ UNCHANGED <<contractPhase, fixResponse, notifyCalled, fixCalls, parserVars, workerVars, loopVars, claimVars, fixVars>>

\* ------------------------------------------------------------------------
\* callClaudeWithLogging
\* ------------------------------------------------------------------------

\* variant: the last request is retried like the others
CanRetryRequestAlways(a) == a <= maxRetries

CanRetryRequest(a) == a < maxRetries

\* variant: a backoff that stays at the base delay
BackoffConstant(a) == baseDelay

\* the backoff slept after the failed request of attempt a
Backoff(a) == baseDelay * 2 ^ (a - 1)

\* the throttle slept at the top of attempt a
ThrottleDelay(a) == IF a > 1 THEN Min(500 * a, 2000) ELSE 0

\* body.model for the next request: the overload and server-error branches
\* switch to the fallback model before the last attempt
NextModel(a, response, current, configured) ==
  IF response \in {"overloaded", "server_error"} /\ a = maxRetries - 1 /\ configured
    THEN "fallback"
    ELSE current

\* what one request of attempt a leads to: the text is returned, the loop
\* goes round again, or an exception leaves the function
GatewayOutcome(a, response) ==
  CASE response = "ok" -> [next |-> "return", message |-> NoError]
    [] response \in {"overloaded", "server_error"} ->
         IF CanRetryRequest(a)
           THEN [next |-> "retry", message |-> NoError]
           ELSE [next |-> "throw", message |-> <<"Claude API failed after 3 attempts">>]
    [] response = "client_error" ->
         [next |-> "throw", message |-> <<"Claude API error:", "400">>]
    [] response = "client_error_fetch" ->
         \* the response body is part of the message the catch clause inspects
         IF CanRetryRequest(a)
           THEN [next |-> "retry", message |-> NoError]
           ELSE [next |-> "throw", message |-> <<"Claude API error:", "400", "fetch">>]
    [] response = "network_error" ->
         IF CanRetryRequest(a)
           THEN [next |-> "retry", message |-> NoError]
           ELSE [next |-> "throw", message |-> <<"fetch failed">>]
    [] OTHER -> [next |-> "throw", message |-> <<"Unexpected token">>]

GatewayRequest ==
  /\ pc \in {"buildFix", "deployFix"}
  /\ attempt \in 1..maxRetries
  /\ \E response \in GatewayResponses :
       LET out == GatewayOutcome(attempt, response) IN
       CASE out.next = "retry" ->
              /\ attempt' = attempt + 1
              /\ model' = NextModel(attempt, response, model, fallbackModel)
              /\ responses' = Append(responses, response)
              /\ delay' = Backoff(attempt)
              /\ throttleDelay' = ThrottleDelay(attempt + 1)
              /\ UNCHANGED <<fallbackModel, fixResponse>>
              /\ UNCHANGED <<job, pc, buildThrew, deploymentFailed, deploymentError,
                             thrown>>
         [] out.next = "return" ->
              /\ EndCall
              /\ fixResponse' \in FixKinds
              /\ pc' = IF pc = "buildFix" THEN "buildApply" ELSE "deployApply"
              /\ UNCHANGED <<job, buildThrew, deploymentFailed, deploymentError,
                             thrown>>
         [] OTHER ->
              /\ EndCall
              /\ fixResponse' = NoFixResponse
              /\ IF pc = "buildFix"
                   THEN /\ AfterBuild(TRUE)
                        /\ UNCHANGED <<job, deploymentFailed, deploymentError, thrown>>
                   ELSE /\ IF jobKind = "initial"
                             THEN /\ InitialCatch(deploymentAttempt, out.message)
                                  /\ UNCHANGED <<deploymentFailed, deploymentError>>
                             ELSE /\ FollowUpCatch(deploymentAttempt, out.message)
                                  /\ UNCHANGED thrown
                        /\ UNCHANGED buildThrew
  /\ UNCHANGED <<jobKind, storeVars, fileVars, currentFiles, iteration,
                 lastErrorSignature, consecutiveSameErrors, buildHistory,
                 buildFixCalls, filesToFix,
                 deploymentAttempt, errorHistory, consecutiveSameErrorCount,
                 stuckOnError, previewData, deployOutcomes, pushed,
                 returned, invocations, notified, redeployed, dispatched, stageFailure>>
  /\ UNCHANGED <<contractPhase, notifyCalled, fixCalls, parserVars, workerVars, loopVars, claimVars, fixVars>>

\* ------------------------------------------------------------------------
\* executeInitialGenerationJob after the deployment loop
\* ------------------------------------------------------------------------

DeploymentFailedOf(preview) ==
  preview = NoPreview \/ preview.status = "deployment_failed"

DeploymentErrorOf(preview) ==
  IF preview.deploymentError # NoError
    THEN preview.deploymentError
    ELSE <<"Deployment failed">>

CompletedResult(files) ==
  [success |-> TRUE, generatedFiles |-> FilenamesOf(files),
   totalFiles |-> Cardinality(FilenamesOf(files))]

\* the project row is created if missing, the files found in the workspace
\* directory are saved to the project store, and the files are pushed once
\* more with the project metadata (a failure of that push is caught)
Persist ==
  /\ pc = "persist"
  /\ deploymentFailed' = DeploymentFailedOf(previewData)
  /\ deploymentError' = DeploymentErrorOf(previewData)
  /\ \E dbOk \in BOOLEAN :
       IF dbOk
         THEN /\ projectFiles' = userDir
              /\ redeployed' = TRUE
              /\ pc' = "finish"
              /\ UNCHANGED <<thrown, stageFailure>>
         ELSE /\ StageThrows(<<"db error">>)
              /\ UNCHANGED <<projectFiles, redeployed>>
  /\ UNCHANGED <<jobVars, userDir, fileVars, buildVars, deploymentAttempt, errorHistory,
                 consecutiveSameErrorCount, stuckOnError, previewData, deployOutcomes,
                 pushed, gatewayVars, returned, invocations, notified,
                 dispatched>>
  /\ UNCHANGED <<contractPhase, fixResponse, notifyCalled, fixCalls, parserVars, workerVars, loopVars, claimVars, fixVars>>

\* notifyDeploymentComplete / notifyDeploymentFailed / notifyEditComplete:
\* true when the notification was delivered; an exception inside is caught
\* and gives false like an undelivered one
Notify(outcome) == outcome = "sent"

NotificationOutcomes == {"sent", "undelivered", "threw"}

\* variant: a notification that was not delivered throws out of the handler
FinishNotifyThrows ==
  /\ pc = "finish"
  /\ \E outcome \in NotificationOutcomes :
       /\ notified' = IF Notify(outcome) THEN notified + 1 ELSE notified
       /\ IF deploymentFailed
            THEN /\ Throw(<<"Deployment failed:">> \o deploymentError)
                 /\ UNCHANGED job
            ELSE /\ job' = updateGenerationJobStatus(job, "completed",
                                                     CompletedResult(generatedFiles),
                                                     UndefinedError)
                 /\ IF Notify(outcome)
                      THEN /\ pc' = "return"
                           /\ UNCHANGED thrown
                      ELSE Throw(<<"notification failed">>)
  /\ UNCHANGED <<jobKind, storeVars, fileVars, buildVars, deployVars, gatewayVars,
                 returned, invocations, redeployed, dispatched, stageFailure>>
  /\ notifyCalled' = TRUE
  /\ UNCHANGED <<contractPhase, fixResponse, fixCalls, parserVars, workerVars, loopVars, claimVars, fixVars>>

\* the end of the handler: a failed deployment is recorded, notified and
\* thrown; a successful one completes the job and is notified
Finish ==
  /\ pc = "finish"
  /\ \E outcome \in NotificationOutcomes :
       notified' = IF Notify(outcome) THEN notified + 1 ELSE notified
  /\ IF deploymentFailed
       THEN /\ Throw(<<"Deployment failed:">> \o deploymentError)
            /\ UNCHANGED job
       ELSE /\ job' = updateGenerationJobStatus(job, "completed",
                                                CompletedResult(generatedFiles),
                                                UndefinedError)
            /\ pc' = "return"
            /\ UNCHANGED thrown
  /\ UNCHANGED <<jobKind, storeVars, fileVars, buildVars, deployVars, gatewayVars,
                 returned, invocations, redeployed, dispatched, stageFailure>>
  /\ notifyCalled' = TRUE
  /\ UNCHANGED <<contractPhase, fixResponse, fixCalls, parserVars, workerVars, loopVars, claimVars, fixVars>>

\* ------------------------------------------------------------------------
\* executeFollowUpJob around the deployment loop
\* ------------------------------------------------------------------------

\* phases 1 and 2: the validated files are written to disk and saved
SaveEdit ==
  /\ pc = "saveEdit"
  /\ userDir' = validatedFiles
  /\ \E dbOk \in BOOLEAN :
       IF dbOk
         THEN /\ projectFiles' = validatedFiles
              /\ deployableFiles' = validatedFiles
              /\ pc' = "deploy"
              /\ UNCHANGED <<thrown, stageFailure>>
         ELSE /\ StageThrows(<<"db error">>)
              /\ UNCHANGED <<projectFiles, deployableFiles>>
  /\ UNCHANGED <<jobVars, generatedFiles, validatedFiles, buildVars, deployVars,
                 gatewayVars, returned, invocations, notified, redeployed, dispatched>>
  /\ UNCHANGED <<contractPhase, fixResponse, notifyCalled, fixCalls, parserVars, workerVars, loopVars, claimVars, fixVars>>

FollowUpErrorResult(error, files) ==
  [success |-> FALSE, deploymentError |-> error, deploymentFailed |-> TRUE,
   status |-> "deployment_failed", generatedFiles |-> FilenamesOf(files)]

FollowUpJobResult(files, n) ==
  [success |-> TRUE, generatedFiles |-> FilenamesOf(files),
   totalFiles |-> Cardinality(FilenamesOf(files)), deploymentAttempts |-> n]

FinishEdit ==
  /\ pc = "finishEdit"
  /\ \E outcome \in NotificationOutcomes :
       notified' = IF Notify(outcome) THEN notified + 1 ELSE notified
  /\ IF deploymentFailed
       THEN /\ job' = updateGenerationJobStatus(
                        job, "failed", FollowUpErrorResult(deploymentError, validatedFiles),
                        deploymentError)
            /\ Throw(<<"Deployment failed:">> \o deploymentError)
       ELSE /\ job' = updateGenerationJobStatus(
                        job, "completed",
                        FollowUpJobResult(validatedFiles, deploymentAttempt),
                        UndefinedError)
            /\ pc' = "return"
            /\ UNCHANGED thrown
  /\ UNCHANGED <<jobKind, storeVars, fileVars, buildVars, deployVars, gatewayVars,
                 returned, invocations, redeployed, dispatched, stageFailure>>
  /\ notifyCalled' = TRUE
  /\ UNCHANGED <<contractPhase, fixResponse, fixCalls, parserVars, workerVars, loopVars, claimVars, fixVars>>

\* ------------------------------------------------------------------------
\* parseVercelDeploymentErrors
\* ------------------------------------------------------------------------

\* An error block of a log is a record of what the log says: the pattern it
\* is written in, the path of the file as a sequence of tokens, the digits
\* of the line, and the message up to the end of the line as a sequence of
\* tokens, " " being white space.
Patterns == <<"ts", "generic", "swc", "eslint">>

LogFiles == {<<"./", "a.tsx">>, <<"./", "b.tsx">>, <<"./", "src", "\\", "a.tsx">>}

\* the text of errorOutput and of logs outside the error blocks; the caller
\* passes a deploymentError that is not the empty string
ErrorOutputs == {<<" ">>, <<"oops">>, <<"Deploy", "failed">>}

LogTexts == {<< >>, <<"error">>}

NoFile == << >>

NoLine == 0

LineDigits == {<<7>>, <<1, 2>>}

RawMessages == {<<"X">>, <<"X", " ">>, <<"Y">>}

LogBlocks ==
  [pattern : {Patterns[i] : i \in 1..Len(Patterns)}, file : LogFiles,
   line : LineDigits, message : RawMessages]

MaxLogBlocks == 2

\* String.prototype.trim on a message
RECURSIVE Trim(_)
Trim(m) ==
  IF m = << >> THEN m
  ELSE IF Head(m) = " " THEN Trim(Tail(m))
  ELSE IF m[Len(m)] = " " THEN Trim(SubSeq(m, 1, Len(m) - 1))
  ELSE m

\* parseInt on the digits of a line number
RECURSIVE ParseInt(_)
ParseInt(digits) ==
  IF digits = << >> THEN 0
  ELSE 10 * ParseInt(SubSeq(digits, 1, Len(digits) - 1)) + digits[Len(digits)]

\* the file a pattern captures: the TypeScript, generic and ESLint patterns
\* match the leading "./" themselves and capture what follows it, the SWC
\* pattern captures the path between the brackets as it stands
CapturedFile(block) ==
  IF block.pattern = "swc" THEN block.file ELSE Tail(block.file)

\* normalizePath, used by getFilesToFix
normalizePath(path) ==
  LET rest == IF path # << >> /\ Head(path) = "./" THEN Tail(path) ELSE path
  IN [i \in 1..Len(rest) |-> IF rest[i] = "\\" THEN "/" ELSE rest[i]]

\* msgKey: what processedMessages remembers of a match
MsgKey(block) ==
  CASE block.pattern \in {"ts", "generic"} ->
         <<CapturedFile(block), block.line, block.message>>
    [] block.pattern = "swc" -> <<"swc:", block.message>>
    [] OTHER -> <<"eslint:", CapturedFile(block), block.line, block.message>>

\* the error pushed for a match
ErrorOf(block) ==
  [file    |-> CapturedFile(block),
   line    |-> ParseInt(block.line),
   category |-> CASE block.pattern = "ts" -> "typescript"
                  [] block.pattern = "eslint" -> "eslint"
                  [] OTHER -> "syntax",
   message |-> CASE block.pattern = "ts" -> <<"TypeScript:">> \o Trim(block.message)
                 [] block.pattern = "swc" -> <<"SWC:">> \o Trim(block.message)
                 [] OTHER -> Trim(block.message),
   code    |-> CASE block.pattern = "ts" -> "TS_TYPE_ERROR"
                 [] block.pattern = "generic" -> "SYNTAX_ERROR"
                 [] block.pattern = "swc" -> "SWC_ERROR"
                 [] OTHER -> "ESLINT_ERROR"]

\* the while loop of one regular expression over the log, from block k on
RECURSIVE Matches(_, _, _, _)
Matches(log, pattern, k, acc) ==
  IF k > Len(log) THEN acc
  ELSE IF log[k].pattern = pattern /\ MsgKey(log[k]) \notin acc.processedMessages
    THEN Matches(log, pattern, k + 1,
                 [processedMessages |-> acc.processedMessages \cup {MsgKey(log[k])},
                  errors |-> Append(acc.errors, ErrorOf(log[k]))])
    ELSE Matches(log, pattern, k + 1, acc)

\* the regular expressions run one after the other over the whole log
RECURSIVE RunPatterns(_, _, _)
RunPatterns(log, p, acc) ==
  IF p > Len(Patterns) THEN acc
  ELSE RunPatterns(log, p + 1, Matches(log, Patterns[p], 1, acc))

\* a line that looks like an error to the fallback
LooksLikeError(text) ==
  \E i \in 1..Len(text) : text[i] \in {"error", "failed", "Failed"}

\* the fallback: when no pattern matched and there is error output, or the
\* logs hold the word "error", one generic error is made of the raw text
Fallback(output, text) ==
  IF Trim(output) # << >> \/ Includes(text, "error")
    THEN <<[file |-> NoFile, line |-> NoLine, category |-> "build",
            message |-> IF LooksLikeError(output \o text)
                          THEN <<"Build error detected">>
                          ELSE <<"Unknown build error">>,
            code |-> "UNKNOWN_ERROR"]>>
    ELSE << >>

parseVercelDeploymentErrors(output, text, log) ==
  LET errors == RunPatterns(log, 1, [processedMessages |-> {}, errors |-> << >>]).errors
  IN IF errors = << >> THEN Fallback(output, text) ELSE errors

\* the logs parsed: every sequence of up to MaxLogBlocks error blocks
ParserInit ==
  /\ HandlerInit
  /\ job.status = "pending"
  /\ jobKind = "initial"
  /\ allLogs \in UNION {[1..n -> LogBlocks] : n \in 0..MaxLogBlocks}
  /\ errorOutput \in ErrorOutputs
  /\ logs \in LogTexts
  /\ parsedErrors = << >>
  /\ parsed = FALSE
  /\ WorkersIdle
  /\ LoopsIdle
  /\ ClaimsIdle
  /\ FixesIdle

Parse ==
  /\ ~parsed
  /\ parsedErrors' = parseVercelDeploymentErrors(errorOutput, logs, allLogs)
  /\ parsed' = TRUE
  /\ UNCHANGED <<handlerVars, allLogs, errorOutput, logs, workerVars, loopVars, claimVars, fixVars>>

ParserNext == Parse

ParserSpec == ParserInit /\ [][ParserNext]_vars

\* ------------------------------------------------------------------------
\* several executions of executeGenerationJob over one database and one disk
\* ------------------------------------------------------------------------

Executions == {1, 2}

JobIds == {"j1", "j2"}

FirstProject == "p0"

NoProject == "none"

\* the ids uuidv4 issues, in the order it issues them
MaxUuids == 2

Uuid(n) == "uuid-" \o ToString(n)

ProjectIds == {FirstProject} \cup {Uuid(n) : n \in 1..MaxUuids}

NoExecution ==
  [pc |-> "idle", jobId |-> "none", projectId |-> NoProject, files |-> NoContent,
   loaded |-> NoContent, savedAtLoad |-> NoContent, saved |-> NoContent]

Live(x) == exec[x].pc \notin {"idle", "done", "killed"}

\* the job rows an execution can meet: a follow-up job names its project, an
\* initial job may
JobContexts ==
  {c \in [status : {"pending"}, isFollowUp : BOOLEAN,
          existingProjectId : {NoProject, FirstProject}] :
     c.isFollowUp => c.existingProjectId = FirstProject}

WorkersInit ==
  /\ HandlerInit
  /\ job.status = "pending"
  /\ jobKind = "initial"
  /\ ParserIdle
  /\ LoopsIdle
  /\ ClaimsIdle
  /\ FixesIdle
  /\ jobRows \in [JobIds -> JobContexts]
  /\ projectRows = {FirstProject}
  /\ savedFiles = [p \in ProjectIds |-> IF p = FirstProject THEN {FirstProject} ELSE NoContent]
  /\ disk = [p \in ProjectIds |-> NoContent]
  /\ uuids = 0
  /\ exec = [x \in Executions |-> NoExecution]
  /\ created = [j \in JobIds |-> {}]

\* executeGenerationJob up to the dispatch; the caller runs one execution
\* per job id at a time
XInvoke(x, j) ==
  /\ exec[x].pc = "idle"
  /\ jobRows[j].status \in {"pending", "processing"}
  /\ \A y \in Executions : Live(y) => exec[y].jobId # j
  /\ jobRows' = [jobRows EXCEPT ![j].status = "processing"]
  /\ exec' = [exec EXCEPT ![x].pc = "setup", ![x].jobId = j]
  /\ UNCHANGED <<projectRows, savedFiles, disk, uuids, created>>
  /\ UNCHANGED <<handlerVars, parserVars, loopVars, claimVars, fixVars>>

\* the project id and the files the handler starts from: the initial handler
\* takes the id of the context or a fresh one and writes what it generated;
\* the follow-up handler reads the directory of the project if there is one,
\* the saved files otherwise, and edits what it read
XSetup(x) ==
  LET j   == exec[x].jobId
      row == jobRows[j]
  IN
  /\ exec[x].pc = "setup"
  /\ IF row.isFollowUp
       THEN LET p    == row.existingProjectId
                base == IF disk[p] # NoContent THEN disk[p] ELSE savedFiles[p]
            IN
            /\ disk' = [disk EXCEPT ![p] = base]
            /\ exec' = [exec EXCEPT ![x].pc = "write", ![x].projectId = p,
                                    ![x].loaded = base,
                                    ![x].savedAtLoad = savedFiles[p],
                                    ![x].files = base \cup {j}]
            /\ UNCHANGED uuids
       ELSE /\ row.existingProjectId # NoProject \/ uuids < MaxUuids
            /\ LET fresh == row.existingProjectId = NoProject
                   p     == IF fresh THEN Uuid(uuids + 1) ELSE row.existingProjectId
               IN
               /\ uuids' = IF fresh THEN uuids + 1 ELSE uuids
               /\ disk' = [disk EXCEPT ![p] = @ \cup {j}]
               /\ exec' = [exec EXCEPT ![x].pc = "project", ![x].projectId = p,
                                       ![x].files = {j}]
  /\ UNCHANGED <<jobRows, projectRows, savedFiles, created>>
  /\ UNCHANGED <<handlerVars, parserVars, loopVars, claimVars, fixVars>>

\* the follow-up handler writes its candidate files to the directory; what
\* else is in the directory stays
XWrite(x) ==
  /\ exec[x].pc = "write"
  /\ disk' = [disk EXCEPT ![exec[x].projectId] = @ \cup exec[x].files]
  /\ exec' = [exec EXCEPT ![x].pc = "save"]
  /\ UNCHANGED <<jobRows, projectRows, savedFiles, uuids, created>>
  /\ UNCHANGED <<handlerVars, parserVars, loopVars, claimVars, fixVars>>

\* the initial handler creates the project row unless there is one
XCreateProject(x) ==
  LET p == exec[x].projectId IN
  /\ exec[x].pc = "project"
  /\ projectRows' = projectRows \cup {p}
  /\ created' = IF p \in projectRows THEN created
                ELSE [created EXCEPT ![exec[x].jobId] = @ \cup {p}]
  /\ exec' = [exec EXCEPT ![x].pc = "save"]
  /\ UNCHANGED <<jobRows, savedFiles, disk, uuids>>
  /\ UNCHANGED <<handlerVars, parserVars, loopVars, claimVars, fixVars>>

\* saveProjectFiles: the initial handler saves what it reads back from the
\* directory, the follow-up handler the files it holds
XSave(x) ==
  LET p     == exec[x].projectId
      files == IF jobRows[exec[x].jobId].isFollowUp THEN exec[x].files ELSE disk[p]
  IN
  /\ exec[x].pc = "save"
  /\ savedFiles' = [savedFiles EXCEPT ![p] = files]
  /\ exec' = [exec EXCEPT ![x].pc = "finish", ![x].saved = files]
  /\ UNCHANGED <<jobRows, projectRows, disk, uuids, created>>
  /\ UNCHANGED <<handlerVars, parserVars, loopVars, claimVars, fixVars>>

XFinish(x) ==
  /\ exec[x].pc = "finish"
  /\ jobRows' = [jobRows EXCEPT ![exec[x].jobId].status = "completed"]
  /\ exec' = [exec EXCEPT ![x].pc = "done"]
  /\ UNCHANGED <<projectRows, savedFiles, disk, uuids, created>>
  /\ UNCHANGED <<handlerVars, parserVars, loopVars, claimVars, fixVars>>

\* the process of an execution is interrupted from outside: nothing more of
\* it runs, its catch block included
XInterrupt(x) ==
  /\ Live(x)
  /\ exec' = [exec EXCEPT ![x].pc = "killed"]
  /\ UNCHANGED <<jobRows, projectRows, savedFiles, disk, uuids, created>>
  /\ UNCHANGED <<handlerVars, parserVars, loopVars, claimVars, fixVars>>

WorkersNext ==
  \E x \in Executions :
    \/ \E j \in JobIds : XInvoke(x, j)
    \/ XSetup(x)
    \/ XWrite(x)
    \/ XCreateProject(x)
    \/ XSave(x)
    \/ XFinish(x)
    \/ XInterrupt(x)

WorkersSpec == WorkersInit /\ [][WorkersNext]_vars

\* ------------------------------------------------------------------------
\* The stuck check of the deployment loops, on its own: the bookkeeping of
\* the loops applied to the errors the platform reports one after another
\* ------------------------------------------------------------------------

\* reported errors, among them errors that say the same with more detail
ReportedErrors ==
  RawErrors \cup {<<"a", "1:1", "in", "page">>, <<"c", "2:5", "in", "page">>}

StuckInit ==
  /\ HandlerInit
  /\ job.status = "pending"
  /\ jobKind = "initial"
  /\ ParserIdle
  /\ WorkersIdle
  /\ LoopsIdle
  /\ ClaimsIdle
  /\ FixesIdle

\* one more reported error is compared with the last one and recorded
TrackError ==
  /\ ~stuckOnError
  /\ Len(errorHistory) < maxDeploymentRetries
  /\ \E error \in ReportedErrors :
       /\ consecutiveSameErrorCount' =
            NextSameErrorCount(errorHistory, consecutiveSameErrorCount, error)
       /\ errorHistory' = Append(errorHistory, error)
       /\ stuckOnError' = IsStuck(consecutiveSameErrorCount')
  /\ UNCHANGED <<jobVars, storeVars, fileVars, buildVars, gatewayVars, pc, returned,
                 invocations, notified, thrown, redeployed, dispatched, stageFailure,
                 contractPhase, fixResponse, notifyCalled, fixCalls, deploymentAttempt,
                 previewData,
                 deploymentFailed, deploymentError, deployOutcomes, pushed>>
  /\ UNCHANGED <<parserVars, workerVars, loopVars, claimVars, fixVars>>

StuckNext == TrackError

StuckSpec == StuckInit /\ [][StuckNext]_vars

\* ------------------------------------------------------------------------
\* The two deployment loops side by side, on one sequence of answers of the
\* platform. A fix step between two attempts returns files and does not
\* throw.
\* ------------------------------------------------------------------------

\* the answers of the platform to one attempt: success, a content failure
\* with its error, an exception that is a timeout, any other exception
AttemptOutcomes ==
  {answer \in PlatformAnswers :
     \/ answer.status = "ready" /\ answer.deploymentError = NoError
     \/ answer.status = "deployment_failed" /\ answer.deploymentError # NoError
     \/ answer.status = "threw"}

\* the while loop of a handler after n attempts, as the number of attempts
\* it makes and the way it ends
RECURSIVE DeploymentLoop(_, _, _, _, _)
DeploymentLoop(kind, outcomes, n, history, count) ==
  IF ~(n < maxDeploymentRetries)
    THEN [attempts |-> n, classification |-> "exhausted"]
    ELSE
      LET a      == n + 1
          answer == outcomes[a]
          error  == answer.deploymentError
          ended(how) == [attempts |-> a, classification |-> how]
      IN
      IF answer.status = "threw"
        THEN IF kind = "initial"
               THEN IF isTimeoutError(error) /\ CanRetry(a)
                      THEN DeploymentLoop(kind, outcomes, a, history, count)
                      ELSE IF ~CanRetry(a)
                             THEN ended("failed")
                             ELSE DeploymentLoop(kind, outcomes, a, history, count)
               ELSE IF isRetryableError(error) /\ CanRetry(a)
                      THEN DeploymentLoop(kind, outcomes, a, history, count)
                      ELSE ended("failed")
        ELSE IF /\ error # NoError
                /\ kind = "initial" => answer.status = "deployment_failed"
          THEN LET c == NextSameErrorCount(history, count, error) IN
               IF IsStuck(c)
                 THEN ended("stuck")
                 ELSE IF CanRetry(a)
                        THEN DeploymentLoop(kind, outcomes, a, Append(history, error), c)
                        ELSE ended("exhausted")
          ELSE IF kind = "initial" /\ answer.status = "deployment_failed"
                 THEN ended("failed")
                 ELSE ended("success")

LoopsInit ==
  /\ HandlerInit
  /\ job.status = "pending"
  /\ jobKind = "initial"
  /\ ParserIdle
  /\ WorkersIdle
  /\ ClaimsIdle
  /\ FixesIdle
  /\ loopOutcomes \in [1..maxDeploymentRetries -> AttemptOutcomes]
  /\ loopResults = [initial |-> NoRun, followUp |-> NoRun]

\* both loops are run on the same answers
RunBothLoops ==
  /\ loopResults.initial = NoRun
  /\ loopResults' = [initial  |-> DeploymentLoop("initial", loopOutcomes, 0, << >>, 0),
                     followUp |-> DeploymentLoop("followUp", loopOutcomes, 0, << >>, 0)]
  /\ UNCHANGED <<handlerVars, parserVars, workerVars, loopOutcomes, claimVars, fixVars>>

LoopsNext == RunBothLoops

LoopsSpec == LoopsInit /\ [][LoopsNext]_vars

\* ------------------------------------------------------------------------
\* executeGenerationJob invoked several times at once for one job id: the
\* fetch of the row, the status check and the update are separate steps
\* ------------------------------------------------------------------------

MaxClaimants == 3

Claimants == 1..MaxClaimants

NotFetched == "not_fetched"

ClaimInit ==
  /\ HandlerInit
  /\ job.status = "pending"
  /\ jobKind = "initial"
  /\ ParserIdle
  /\ WorkersIdle
  /\ LoopsIdle
  /\ FixesIdle
  /\ storedStatus = "pending"
  /\ claimants = [i \in Claimants |-> [pc |-> "start", fetched |-> NotFetched]]
  /\ overlapped = FALSE

\* the invocation is between its fetch of the row and the end of its handler
LiveClaimant(i) == claimants[i].pc \in {"check", "mark", "pipeline"}

\* getGenerationJobById: the row as it is now
FetchJob(i) ==
  /\ claimants[i].pc = "start"
  /\ claimants' = [claimants EXCEPT ![i] = [pc |-> "check", fetched |-> storedStatus]]
  /\ overlapped' = (overlapped \/ \E j \in Claimants \ {i} : LiveClaimant(j))
  /\ UNCHANGED storedStatus
  /\ UNCHANGED <<handlerVars, parserVars, workerVars, loopVars, fixVars>>

\* the status check on the fetched row
CheckStatus(i) ==
  /\ claimants[i].pc = "check"
  /\ claimants' = [claimants EXCEPT
                     ![i].pc = IF CanProcess(claimants[i].fetched) THEN "mark" ELSE "threw"]
  /\ UNCHANGED <<storedStatus, overlapped>>
  /\ UNCHANGED <<handlerVars, parserVars, workerVars, loopVars, fixVars>>

\* the update to processing if the fetched row was pending, whatever the row
\* is by now; the handler is entered
MarkProcessing(i) ==
  /\ claimants[i].pc = "mark"
  /\ storedStatus' = IF claimants[i].fetched = "pending" THEN "processing"
                     ELSE storedStatus
  /\ claimants' = [claimants EXCEPT ![i].pc = "pipeline"]
  /\ UNCHANGED overlapped
  /\ UNCHANGED <<handlerVars, parserVars, workerVars, loopVars, fixVars>>

\* variant: the handler ends and leaves the row pending
EndPipelinePending(i) ==
  /\ claimants[i].pc = "pipeline"
  /\ storedStatus' = "pending"
  /\ claimants' = [claimants EXCEPT ![i].pc = "ended"]
  /\ UNCHANGED overlapped
  /\ UNCHANGED <<handlerVars, parserVars, workerVars, loopVars, fixVars>>

\* the handler ends and writes a terminal status
EndPipeline(i) ==
  /\ claimants[i].pc = "pipeline"
  /\ \E status \in {"completed", "failed"} : storedStatus' = status
  /\ claimants' = [claimants EXCEPT ![i].pc = "ended"]
  /\ UNCHANGED overlapped
  /\ UNCHANGED <<handlerVars, parserVars, workerVars, loopVars, fixVars>>

ClaimNext ==
  \E i \in Claimants :
    \/ FetchJob(i)
    \/ CheckStatus(i)
    \/ MarkProcessing(i)
    \/ EndPipeline(i)

ClaimSpec == ClaimInit /\ [][ClaimNext]_vars

\* ------------------------------------------------------------------------
\* A parsed fix answer applied to currentFiles: diff-based fixes first, whole
\* files as the fallback
\* ------------------------------------------------------------------------

MaxFixes == 2

\* a fix may name a file currentFiles does not hold
FixFilenames == {"page", "layout", "extra"}

\* whole-file contents carried by an answer, apart from every content a
\* diff can produce
WholeContents == {7, 8}

\* a content that is missing or empty
UndefinedContent == << >>

\* a parsed fix: unifiedDiff and diffHunks say whether the field is present,
\* content holds the whole file if there is one
ParsedFixes ==
  [filename : FixFilenames, unifiedDiff : BOOLEAN, diffHunks : BOOLEAN,
   content : {<<c>> : c \in WholeContents} \cup {UndefinedContent}]

FixAnswers == UNION {[1..n -> ParsedFixes] : n \in 0..MaxFixes}

FixInputs == {[f \in {"page"} |-> 0], [f \in {"page", "layout"} |-> 0]}

\* fixes.filter(f => f.unifiedDiff && f.diffHunks)
FileDiffs(answer) ==
  SelectSeq(answer, LAMBDA f : f.unifiedDiff /\ f.diffHunks)

\* variant: every fix that carries a content counts as a whole-file fix
FullContentFixesAnyContent(answer) ==
  SelectSeq(answer, LAMBDA f : f.content # UndefinedContent)

\* fixes.filter(f => f.content && !f.unifiedDiff)
FullContentFixes(answer) ==
  SelectSeq(answer, LAMBDA f : f.content # UndefinedContent /\ ~f.unifiedDiff)

\* fullContentFixes.find(f => f.filename === name): the first fix of the name
FindFix(fullContentFixes, name) ==
  LET matches == SelectSeq(fullContentFixes, LAMBDA f : f.filename = name)
  IN  IF matches = << >> THEN UndefinedContent ELSE matches[1].content

\* currentFiles.map(...): every file keeps its name, a file named by a fix
\* takes the content of the fix
ReplaceWholeFiles(files, fullContentFixes) ==
  [name \in DOMAIN files |->
     IF FindFix(fullContentFixes, name) # UndefinedContent
       THEN FindFix(fullContentFixes, name)[1]
       ELSE files[name]]

RECURSIVE ApplyDiffs(_, _)
\* applyDiffsToFiles: the diffs one after the other
ApplyDiffs(files, fileDiffs) ==
  IF fileDiffs = << >> THEN files
  ELSE ApplyDiffs(ApplyFix(files, "diff", fileDiffs[1].filename), Tail(fileDiffs))

\* validateAndFixBuild: diffs if the answer has any, else whole files if it
\* has any, else nothing
BuildFixFiles(files, answer) ==
  IF Len(FileDiffs(answer)) > 0
    THEN ApplyDiffs(files, FileDiffs(answer))
    ELSE IF Len(FullContentFixes(answer)) > 0
           THEN ReplaceWholeFiles(files, FullContentFixes(answer))
           ELSE files

\* fixDeploymentErrors: without diffs the whole files if the answer has any,
\* else the files as they are; with diffs the diffs
DeployFixFiles(files, answer) ==
  IF Len(FileDiffs(answer)) = 0
    THEN IF Len(FullContentFixes(answer)) > 0
           THEN ReplaceWholeFiles(files, FullContentFixes(answer))
           ELSE files
    ELSE ApplyDiffs(files, FileDiffs(answer))

FixInit ==
  /\ HandlerInit
  /\ job.status = "pending"
  /\ jobKind = "initial"
  /\ ParserIdle
  /\ WorkersIdle
  /\ LoopsIdle
  /\ ClaimsIdle
  /\ fixes \in FixAnswers
  /\ filesBefore \in FixInputs
  /\ updatedFiles = NotApplied
  /\ fixSite = "none"

BuildFixApplied ==
  /\ fixSite = "none"
  /\ updatedFiles' = BuildFixFiles(filesBefore, fixes)
  /\ fixSite' = "build"
  /\ UNCHANGED <<fixes, filesBefore>>
  /\ UNCHANGED <<handlerVars, parserVars, workerVars, loopVars, claimVars>>

DeployFixApplied ==
  /\ fixSite = "none"
  /\ updatedFiles' = DeployFixFiles(filesBefore, fixes)
  /\ fixSite' = "deploy"
  /\ UNCHANGED <<fixes, filesBefore>>
  /\ UNCHANGED <<handlerVars, parserVars, workerVars, loopVars, claimVars>>

FixNext ==
  \/ BuildFixApplied
  \/ DeployFixApplied

FixSpec == FixInit /\ [][FixNext]_vars

\* ------------------------------------------------------------------------
\* Specification
\* ------------------------------------------------------------------------

Step ==
  \/ Setup
  \/ Generate
  \/ Contracts
  \/ BuildIteration
  \/ BuildReturn
  \/ BuildApply
  \/ GatewayRequest
  \/ DeployAttemptInitial
  \/ DeployAttemptFollowUp
  \/ DeployApply
  \/ Persist
  \/ Finish
  \/ SaveEdit
  \/ FinishEdit
  \/ CatchBlock
  \/ Return

Next == Invoke \/ Step

Spec == Init /\ [][Next]_vars

\* every pending step of a live execution is eventually taken: every
\* external call returns or throws
FairSpec == Spec /\ WF_vars(Step)

\* ------------------------------------------------------------------------
\* Properties
\* ------------------------------------------------------------------------

Terminal == {"completed", "failed"}

\* what the platform answered to a push
ContentFailure(answer) ==
  answer.status = "deployment_failed" /\ answer.deploymentError # NoError

TransientFailure(answer) ==
  answer.status = "threw" /\ Includes(answer.deploymentError, "timeout")

Succeeded(answer) ==
  answer.status = "ready" /\ answer.deploymentError = NoError

InDeploymentLoop == pc \in {"deploy", "deployFix", "deployApply"}

InBuildLoop == pc \in {"build", "buildFix", "buildApply"}

\* the attempts k-2, k-1 and k reported a content failure with one signature
SameSignatureRun(k) ==
  /\ k >= MAX_CONSECUTIVE_SAME_ERROR_RETRIES
  /\ k <= Len(deployOutcomes)
  /\ \A i \in (k - 2)..k :
       /\ ContentFailure(deployOutcomes[i])
       /\ createErrorSignature(deployOutcomes[i].deploymentError)
            = createErrorSignature(deployOutcomes[k].deploymentError)

\* C1: when executeGenerationJob has returned or thrown for a job that was
\* pending or processing, the stored status is completed or failed, whichever
\* stage failed
JobEndsInTerminalStatus ==
  (pc = "idle" /\ dispatched /\ returned # "none") => job.status \in Terminal

\* a job whose execution threw out of the persistence stage
ThrewAtPersistence ==
  /\ pc = "idle"
  /\ dispatched
  /\ returned = "threw"
  /\ thrown = <<"db error">>
  /\ job.status = "failed"

\* C2: the stored status only moves along pending -> processing -> completed
\* or failed, and a completed or failed job keeps its status for ever, also
\* when executeGenerationJob is invoked on it again
StatusRank(status) ==
  CASE status = "pending" -> 0
    [] status = "processing" -> 1
    [] OTHER -> 2

StatusOnlyMovesForward ==
  [][/\ StatusRank(job'.status) >= StatusRank(job.status)
     /\ (job.status \in Terminal => job'.status = job.status)]_vars

\* C3: if every external call returns or throws, every execution ends, with
\* the job in a terminal status, after at most maxIterations build runs, at
\* most maxDeploymentRetries pushes and at most maxRetries requests per
\* gateway call
WithinBounds ==
  /\ iteration <= maxIterations
  /\ Len(buildHistory) <= maxIterations
  /\ deploymentAttempt <= maxDeploymentRetries
  /\ Len(deployOutcomes) <= maxDeploymentRetries
  /\ attempt <= maxRetries

EveryExecutionTerminates ==
  /\ []WithinBounds
  /\ (pc # "idle") ~> (pc = "idle" /\ returned # "none" /\ job.status \in Terminal)

\* an execution about to end after it used every deployment attempt
EndsAfterAllAttempts ==
  /\ pc \in {"catch", "return"}
  /\ deploymentAttempt = maxDeploymentRetries
  /\ \A k \in 1..maxDeploymentRetries : ContentFailure(deployOutcomes[k])

BuildRunsBounded == Len(buildHistory) <= maxIterations

\* every iteration failed, each with another error than the one before
ThreeDifferentBuildFailures ==
  /\ buildHistory = <<"E1", "E2", "E1">>
  /\ pc = "buildReturn"
  /\ ~buildThrew

\* C6: a build failure with the error of the iteration before ends
\* validateAndFixBuild at that iteration: no gateway call, no further build
StopsAtSecondSameBuildError ==
  \A k \in 2..Len(buildHistory) :
    (buildHistory[k] \in BuildErrors /\ buildHistory[k] = buildHistory[k - 1]) =>
      /\ Len(buildHistory) = k
      /\ ~InBuildLoop

\* C7: a timeout at attempt 1 followed by a success at attempt 2 ends the job
\* completed, successful, with a result that reports two attempts
AttemptsReported(result) ==
  IF "attempts" \in DOMAIN result THEN result.attempts
  ELSE IF "deploymentAttempts" \in DOMAIN result THEN result.deploymentAttempts
  ELSE 0

TimeoutThenSuccessReportsTwo ==
  (/\ pc = "return"
   /\ Len(deployOutcomes) = 2
   /\ TransientFailure(deployOutcomes[1])
   /\ Succeeded(deployOutcomes[2])) =>
    /\ job.status = "completed"
    /\ job.result.success
    /\ AttemptsReported(job.result) = 2

\* C8: the result of a job whose deployment loop ended stuck says stuck, the
\* result of one that used every attempt on content failures says not stuck
LoopExhausted ==
  /\ deploymentAttempt = maxDeploymentRetries
  /\ Len(deployOutcomes) = maxDeploymentRetries
  /\ ContentFailure(deployOutcomes[maxDeploymentRetries])
  /\ ~stuckOnError

StuckFlagInResult ==
  (pc = "catch" /\ ~stageFailure /\ (stuckOnError \/ LoopExhausted)) =>
    /\ job.status = "failed"
    /\ "stuckOnError" \in DOMAIN job.result
    /\ job.result.stuckOnError = stuckOnError

\* C9: a job that failed in the deployment stage (stuck, every attempt used
\* on content failures, or an exception at the last attempt) is left with a
\* stored result that has the attempt count, the stuck flag, the last
\* deployment error and the list of generated files
ThrewAtLastAttempt ==
  /\ deploymentAttempt = maxDeploymentRetries
  /\ Len(deployOutcomes) = maxDeploymentRetries
  /\ deployOutcomes[maxDeploymentRetries].status = "threw"

FailedDeploymentKeepsDetails ==
  (pc = "catch" /\ ~stageFailure
     /\ (stuckOnError \/ LoopExhausted \/ ThrewAtLastAttempt)) =>
    /\ job.status = "failed"
    /\ {"attempts", "stuckOnError", "deploymentError", "generatedFiles"}
         \subseteq DOMAIN job.result

\* C10: after an attempt, not the last, that failed with a timeout the loop
\* is back at its start with no gateway call made, and the next attempt
\* pushes the FileSet of that attempt
TimeoutRetriesWithoutFix ==
  [][(/\ Len(deployOutcomes) \in 1..maxDeploymentRetries - 1
      /\ TransientFailure(deployOutcomes[Len(deployOutcomes)])) =>
       (/\ pc = "deploy"
        /\ attempt = 0
        /\ deploymentAttempt' # deploymentAttempt => pushed' = pushed)]_vars

\* a timeout at the second attempt, after a content failure, and the push
\* that followed
PushedAgainAfterTimeout ==
  /\ Len(deployOutcomes) >= 3
  /\ ContentFailure(deployOutcomes[1])
  /\ TransientFailure(deployOutcomes[2])
  /\ pushed = <<generatedFiles>>

\* C11: the caller of validateAndFixBuild goes on with the FileSet the loop
\* held when it ended, however the loop ended: no fix of an earlier iteration
\* is dropped
CallerKeepsBuildLoopFiles ==
  [][pc = "buildReturn" =>
       (IF jobKind = "initial" THEN generatedFiles' ELSE validatedFiles')
         = currentFiles]_vars

\* C13: how the handler ends depends on the deployment alone, not on the
\* notification: a successful deployment completes the job, a failed one
\* leaves the failed status and the diagnostic the job had
NotificationNeverDecides ==
  [][(pc = "finish" \/ pc = "finishEdit") =>
       (IF deploymentFailed
          THEN (/\ pc' = "catch"
                /\ thrown' = <<"Deployment failed:">> \o deploymentError
                /\ job'.status = (IF jobKind = "initial" THEN job.status ELSE "failed")
                /\ job'.error = (IF jobKind = "initial" THEN job.error
                                                        ELSE deploymentError))
          ELSE (/\ pc' = "return"
                /\ job'.status = "completed"
                /\ job'.error = job.error))]_vars

\* a job completed although its notification was not delivered
CompletedWithoutNotification ==
  /\ pc = "return"
  /\ job.status = "completed"
  /\ notified = 0
  /\ jobKind = "initial"

\* C12: the application of a project with contracts is pushed only after
\* the prerequisite contract deployment has completed and its addresses are
\* in the files
PushedOnlyAfterContracts ==
  (jobKind = "initial" /\ pushed # << >> /\ contractPhase # "not_web3")
    => contractPhase = "deployed"

\* what the claims about callClaudeWithLogging call a retryable failure
RetryableFailures == {"overloaded", "server_error", "network_error"}

ClientErrors == {"client_error", "client_error_fetch"}

\* C16: a 4xx answer other than 429 ends the call: no request of a call
\* follows one that such an answer was given to
ClientErrorEndsCall ==
  \A i \in 1..Len(responses) : responses[i] \notin ClientErrors

\* C17: with a fallback model configured, a final attempt that follows
\* retryable failures only goes to the fallback model, and the attempts
\* before it go to the primary model
FinalAttemptUsesFallback ==
  (attempt > 0 /\ fallbackModel
     /\ \A i \in 1..Len(responses) : responses[i] \in RetryableFailures) =>
    model = IF attempt = maxRetries THEN "fallback" ELSE "primary"

\* C18: a call sends at most maxRetries requests, each retry follows a backoff
\* of twice the one before, starting at the base delay, and the last
\* attempt ends the call, by an exception unless it got the text
BoundedRequestsWithBackoff ==
  [][/\ attempt \in 0..maxRetries
     /\ Len(responses) = (IF attempt = 0 THEN 0 ELSE attempt - 1)
     /\ (attempt' = attempt + 1 /\ attempt >= 1) =>
          /\ responses'[attempt] \in RetryableFailures \cup ClientErrors
          /\ delay' = (IF attempt = 1 THEN baseDelay ELSE 2 * delay)
     /\ attempt = maxRetries =>
          /\ attempt' = 0
          /\ pc' \notin {"buildFix", "deployFix"}]_vars

\* a call at its third request after two retryable failures
ThirdRequestAfterTwoBackoffs ==
  /\ attempt = maxRetries
  /\ delay = 2 * baseDelay
  /\ responses = <<"overloaded", "network_error">>

\* the (file, line, message) of a returned error
TupleOf(error) == <<error.file, error.line, error.message>>

\* C19: whatever number of times an error is in the log, the result holds
\* its (file, line, message) once
OneErrorPerTuple ==
  parsed =>
    /\ \A k \in 1..Len(allLogs) :
         \E i \in 1..Len(parsedErrors) : TupleOf(parsedErrors[i]) = TupleOf(ErrorOf(allLogs[k]))
    /\ \A i, j \in 1..Len(parsedErrors) :
         TupleOf(parsedErrors[i]) = TupleOf(parsedErrors[j]) => i = j

\* C20: two errors of the log that differ in file, in line or in message
\* are both in the result
DistinctErrorsBothReturned ==
  parsed =>
    \A k, l \in 1..Len(allLogs) :
      TupleOf(ErrorOf(allLogs[k])) # TupleOf(ErrorOf(allLogs[l])) =>
        /\ \E i \in 1..Len(parsedErrors) : parsedErrors[i] = ErrorOf(allLogs[k])
        /\ \E i \in 1..Len(parsedErrors) : parsedErrors[i] = ErrorOf(allLogs[l])

\* C14: the executions of one initial job work on one project id and create
\* at most one project row between them
ReinvocationResumes ==
  /\ \A j \in DOMAIN created : Cardinality(created[j]) <= 1
  /\ \A x, y \in DOMAIN exec :
       (/\ exec[x].jobId = exec[y].jobId
        /\ exec[x].projectId # NoProject
        /\ exec[y].projectId # NoProject) => exec[x].projectId = exec[y].projectId

\* C15: the files an execution starts from and the files it saves hold
\* nothing of another job that was not in the saved files of the project
\* when the execution read them
OnlySavedFilesAreShared ==
  \A x \in DOMAIN exec : \A j \in JobIds \ {exec[x].jobId} :
    /\ j \in exec[x].loaded => j \in exec[x].savedAtLoad
    /\ j \in exec[x].saved => j \in exec[x].savedAtLoad

\* a path without a leading "./" and with "/" separators only
NormalizedPath(path) == normalizePath(path) = path

\* C21: every returned error that carries a file carries a normalised path
ParsedPathsNormalized ==
  parsed =>
    \A i \in 1..Len(parsedErrors) :
      parsedErrors[i].file # NoFile => NormalizedPath(parsedErrors[i].file)

\* C22: the parser returns at least one error for a deployment error the
\* loop hands to the fix step
FixStepHasAnError ==
  (parsed /\ errorOutput # << >>) => Len(parsedErrors) >= 1

\* C23: a fix answer that cannot be parsed makes a no-op iteration: the
\* FileSet stays as it was, the job row gets no failure from it, and the
\* loop goes on to its next iteration
UnparseableFixIsNoOp ==
  [][(fixResponse = "unparseable" /\ (pc = "buildApply" \/ pc = "deployApply")) =>
       (/\ currentFiles' = currentFiles
        /\ generatedFiles' = generatedFiles
        /\ deployableFiles' = deployableFiles
        /\ \/ pc = "buildApply" /\ pc' = "build" /\ job' = job
           \/ pc = "deployApply" /\ pc' = "deploy" /\ job'.status = "processing"
           \/ stageFailure')]_vars

\* an unparseable answer was taken and the deployment loop went on
ContinuedAfterUnparseableFix ==
  /\ pc = "deploy"
  /\ deploymentAttempt >= 1
  /\ fixResponse = "unparseable"
  /\ jobKind = "initial"
  /\ job.status = "processing"
  /\ pushed = <<generatedFiles>>
  /\ ContentFailure(deployOutcomes[Len(deployOutcomes)])

\* C24: the workspace directory is never a second source of truth: a
\* follow-up execution starts from the saved files of its project, and an
\* execution saves the files it holds in memory
DirectoryNeverReadBack ==
  \A x \in DOMAIN exec :
    /\ exec[x].loaded # NoContent => exec[x].loaded = exec[x].savedAtLoad
    /\ exec[x].saved # NoContent => exec[x].saved = exec[x].files

\* C25: two reported errors count as the same only if their signatures are
\* equal, and the loop is stuck only when the last three reported errors
\* all have the same signature
SameOnlyIfEqualSignatures ==
  LET n == Len(errorHistory)
      sig(i) == createErrorSignature(errorHistory[i])
  IN /\ (n >= 2 /\ consecutiveSameErrorCount >= 2) => sig(n) = sig(n - 1)
     /\ stuckOnError =>
          /\ n >= MAX_CONSECUTIVE_SAME_ERROR_RETRIES
          /\ \A i \in (n - MAX_CONSECUTIVE_SAME_ERROR_RETRIES + 1)..n : sig(i) = sig(n)

\* C26: an execution that was dispatched to a handler and ends with the
\* job completed or failed has called a notification
TerminalStatusNotifies ==
  [][(/\ pc # "idle"
      /\ pc' = "idle"
      /\ dispatched
      /\ job'.status \in {"completed", "failed"}) => notifyCalled]_vars

\* an answer whose error the loop of this job records in errorHistory
Recorded(answer) ==
  /\ answer.status # "threw"
  /\ answer.deploymentError # NoError
  /\ jobKind = "initial" => answer.status = "deployment_failed"

\* C27: a transient failure between content failures neither resets nor
\* increments the counter: the recorded errors are those of the content
\* failures alone, each compared with the one recorded before it, and the
\* outcomes [A, timeout, A, A] make the loop stuck at attempt 4
TransientKeepsCounter ==
  LET o == deployOutcomes
      recorded == SelectSeq(o, Recorded)
  IN /\ errorHistory = [i \in 1..Len(recorded) |-> recorded[i].deploymentError]
     /\ (/\ Len(o) = maxDeploymentRetries
         /\ ContentFailure(o[1])
         /\ TransientFailure(o[2])
         /\ ContentFailure(o[3])
         /\ ContentFailure(o[4])
         /\ areErrorsSimilar(o[3].deploymentError, o[1].deploymentError)
         /\ areErrorsSimilar(o[4].deploymentError, o[3].deploymentError)) =>
          /\ stuckOnError
          /\ consecutiveSameErrorCount = MAX_CONSECUTIVE_SAME_ERROR_RETRIES

\* the loop is stuck at attempt 4 after [A, timeout, A, A]
StuckAcrossTimeout ==
  /\ Len(deployOutcomes) = maxDeploymentRetries
  /\ deploymentAttempt = maxDeploymentRetries
  /\ ContentFailure(deployOutcomes[1])
  /\ TransientFailure(deployOutcomes[2])
  /\ ContentFailure(deployOutcomes[3])
  /\ ContentFailure(deployOutcomes[4])
  /\ stuckOnError
  /\ Len(errorHistory) = MAX_CONSECUTIVE_SAME_ERROR_RETRIES

\* C28: on the same sequence of outcomes the follow-up loop and the initial
\* loop make the same number of attempts and end the same way
LoopsAgree ==
  loopResults.initial # NoRun =>
    /\ loopResults.followUp.attempts = loopResults.initial.attempts
    /\ loopResults.followUp.classification = loopResults.initial.classification

\* C29: an execution of an initial job that made a deployment attempt does
\* not end before the files of the project are saved, however the
\* deployment went (failures of the store itself set aside)
ProjectSavedBeforeReturn ==
  [][(/\ pc # "idle"
      /\ pc' = "idle"
      /\ jobKind = "initial"
      /\ deployOutcomes # << >>
      /\ ~stageFailure) => (projectFiles' # NoFiles /\ projectFiles' = userDir)]_vars

\* C30: when the stored status of an initial job becomes completed, or
\* failed with a result that names the generated files, the files of the
\* project are saved already
TerminalStatusAfterSave ==
  [][(/\ jobKind = "initial"
      /\ job.status \notin {"completed", "failed"}
      /\ job'.status \in {"completed", "failed"}
      /\ "generatedFiles" \in DOMAIN job'.result) => projectFiles # NoFiles]_vars

\* C31: once the deployment loop of an initial job has written the failed
\* status with its error message and diagnostic, no later step of the
\* execution changes the stored error message or result (failures of the
\* store set aside)
LoopDiagnosticKept ==
  [][(/\ jobKind = "initial"
      /\ pc # "idle"
      /\ dispatched
      /\ deployOutcomes # << >>
      /\ ~stageFailure
      /\ job.status = "failed") =>
       (job'.error = job.error /\ job'.result = job.result)]_vars

\* C32: after the deployment loop of an initial job has declared failure
\* (stuck, or all attempts used), the execution pushes the files to the
\* hosting platform no more
NoPushAfterFailedLoop ==
  (/\ jobKind = "initial"
   /\ pc # "idle"
   /\ job.status = "failed"
   /\ "stuckOnError" \in DOMAIN job.result) =>
    ~redeployed

\* C33: a content failure at the last permitted attempt that is also the
\* third consecutive failure with the same error ends the loop as stuck,
\* not as plain exhaustion
StuckBeforeExhaustion ==
  (/\ deploymentAttempt = maxDeploymentRetries
   /\ Len(deployOutcomes) = maxDeploymentRetries
   /\ Recorded(deployOutcomes[maxDeploymentRetries])
   /\ consecutiveSameErrorCount >= MAX_CONSECUTIVE_SAME_ERROR_RETRIES) =>
    /\ stuckOnError
    /\ jobKind = "initial" => job.result.status = "stuck_on_error"
    /\ (jobKind = "follow_up" /\ pc = "finishEdit") =>
         deploymentError =
           FollowUpStuckError(consecutiveSameErrorCount,
                              deployOutcomes[maxDeploymentRetries].deploymentError)

\* a follow-up loop that is stuck at its last attempt
StuckAtLastAttempt ==
  /\ jobKind = "follow_up"
  /\ pc = "finishEdit"
  /\ deploymentAttempt = maxDeploymentRetries
  /\ Recorded(deployOutcomes[maxDeploymentRetries])
  /\ consecutiveSameErrorCount = MAX_CONSECUTIVE_SAME_ERROR_RETRIES
  /\ stuckOnError
  /\ deploymentFailed

DeclaredFailure ==
  \/ stuckOnError
  \/ /\ deploymentAttempt = maxDeploymentRetries
     /\ Len(deployOutcomes) = maxDeploymentRetries
     /\ Recorded(deployOutcomes[maxDeploymentRetries])

\* C35: one run of a deployment loop calls fixDeploymentErrors at most
\* maxDeploymentRetries - 1 times, each time for a recorded failure, and
\* not for the failure at which stuck or exhaustion is declared
FixCallsBounded ==
  /\ fixCalls <= maxDeploymentRetries - 1
  /\ fixCalls <= Len(errorHistory)
  /\ DeclaredFailure => fixCalls <= Len(errorHistory) - 1

\* a loop that called the fix step after each of its first three attempts
\* and used its last attempt on one more failure
ThreeFixesThenExhausted ==
  /\ fixCalls = maxDeploymentRetries - 1
  /\ Len(errorHistory) = maxDeploymentRetries
  /\ ~stuckOnError
  /\ jobKind = "initial"
  /\ pc = "persist"

\* C36: one call of validateAndFixBuild calls the LLM at most
\* maxIterations - 1 times, each time directly after a failed build that is
\* not the build of the last iteration and whose errors name a file of the
\* FileSet
BuildFixCallsBounded ==
  /\ buildFixCalls <= maxIterations - 1
  /\ pc \in {"buildFix", "buildApply"} =>
       /\ buildHistory[Len(buildHistory)] \in BuildErrors
       /\ Len(buildHistory) = iteration
       /\ iteration < maxIterations
       /\ buildFixCalls = iteration
       /\ filesToFix # {}
       /\ filesToFix \subseteq FilenamesOf(currentFiles)

\* the LLM is called a second time, after the second failed build
SecondBuildFixCall ==
  /\ pc = "buildFix"
  /\ buildFixCalls = maxIterations - 1
  /\ attempt = 1
  /\ buildHistory[1] # buildHistory[2]

\* C37: the status completed is written only by an execution whose last
\* deployment attempt returned, and returned without a deployment failure;
\* never after a loop that ended stuck, exhausted or by exception
CompletedOnlyAfterSuccess ==
  [][(job.status # "completed" /\ job'.status = "completed") =>
       (/\ deployOutcomes # << >>
        /\ deployOutcomes[Len(deployOutcomes)].status \notin {"threw", "deployment_failed"}
        /\ ~stuckOnError)]_vars

\* C38: of the invocations made at once for one pending job at most one
\* passes the status check and runs the pipeline
AtMostOneClaims ==
  Cardinality({i \in DOMAIN claimants :
                 claimants[i].pc \in {"mark", "pipeline", "ended"}}) <= 1

\* C38 as amended: the fetch, the check and the update are separate steps;
\* of invocations for one pending job id that do not overlap, at most one
\* passes the status check on a row it fetched as pending
AtMostOneClaimsInTurn ==
  ~overlapped =>
    Cardinality({i \in DOMAIN claimants :
                   /\ claimants[i].pc \in {"mark", "pipeline", "ended"}
                   /\ claimants[i].fetched = "pending"}) <= 1

\* one invocation ran the job it fetched as pending, a later one is turned
\* away by the status check
LaterInvocationTurnedAway ==
  /\ ~overlapped
  /\ \E i, j \in DOMAIN claimants :
       /\ claimants[i].pc = "ended"
       /\ claimants[i].fetched = "pending"
       /\ claimants[j].pc = "threw"

\* the answer holds a fix with both a unified diff and hunks
HasDiffBasedFix ==
  \E i \in DOMAIN fixes : fixes[i].unifiedDiff /\ fixes[i].diffHunks

\* the answer holds a fix of this file with a content and no unified diff
NamedByFullContentFix(name) ==
  \E i \in DOMAIN fixes :
    /\ fixes[i].filename = name
    /\ fixes[i].content # UndefinedContent
    /\ ~fixes[i].unifiedDiff

\* C39: the whole-file fallback keeps the filenames of the FileSet, changes
\* only files named by a full-content fix, and puts a whole-file content in
\* place only when the answer holds no diff-based fix
WholeFileFallbackFrame ==
  fixSite # "none" =>
    /\ ~HasDiffBasedFix =>
         /\ DOMAIN updatedFiles = DOMAIN filesBefore
         /\ \A name \in DOMAIN filesBefore :
              updatedFiles[name] # filesBefore[name] => NamedByFullContentFix(name)
    /\ HasDiffBasedFix =>
         \A name \in DOMAIN updatedFiles : updatedFiles[name] \notin WholeContents

\* a whole file replaced, another left alone, and a fix of a file the FileSet
\* does not hold dropped
WholeFileReplacedOneKept ==
  /\ fixSite = "deploy"
  /\ ~HasDiffBasedFix
  /\ DOMAIN filesBefore = {"page", "layout"}
  /\ updatedFiles["page"] \in WholeContents
  /\ updatedFiles["layout"] = filesBefore["layout"]
  /\ NamedByFullContentFix("extra")

====
